---- MODULE Spec2Model ----
(***************************************************************************)
(* rustup-cli, rustup_mode.rs: the bare-triple diagnostics of `update` and *)
(* `default`, and the command handlers around them.                         *)
(*                                                                         *)
(* A name (toolchain name, target triple, path) is the sequence of its     *)
(* dash-delimited segments: "stable-x86_64-unknown-linux-gnu" is           *)
(* <<"stable","x86_64","unknown","linux","gnu">>.  Parsing and formatting  *)
(* work on these segments, the empty string is <<>>.                       *)
(***************************************************************************)
EXTENDS Integers, Sequences, FiniteSets, TLC

VARIABLES
    installed,          \* the toolchains directory, as cfg.list_toolchains() lists it
    default_toolchain,  \* settings.default_toolchain (NoName when not configured)
    overrides,          \* settings.overrides, a sequence of [path, toolchain]
    dirs,               \* the paths that are existing directories
    last                \* what the last command was given, did and returned

vars == <<installed, default_toolchain, overrides, dirs, last>>

(* ------------------------------ bounds -------------------------------- *)

\* Most toolchains the toolchains directory holds.
MaxInstalled == 3

\* Most toolchain names one `update` is given.
MaxArgs == 2

\* Most override entries the settings hold.
MaxOverrides == 2

(* --------------------------- names and vocabulary --------------------- *)

NoName == <<>>

\* Option::None of a triple component.
None == <<>>

LIST_ARCHS == {<<"x86_64">>, <<"i686">>}
LIST_OSES == {<<"unknown", "linux">>, <<"apple", "darwin">>}
LIST_ENVS == {<<"gnu">>}
CHANNELS == {"stable", "nightly"}

\* cfg.get_default_host_triple()
HostTriple == [arch |-> <<"x86_64">>, os |-> <<"unknown", "linux">>, env |-> <<"gnu">>]

Opt(S) == S \cup {None}

PartialTriples == [arch : Opt(LIST_ARCHS), os : Opt(LIST_OSES), env : Opt(LIST_ENVS)]

\* The text of a triple: its present components joined by dashes.
TripleText(t) == t.arch \o t.os \o t.env

\* PartialTargetTriple::from_str: the components in the order arch, os, env,
\* each optional, covering the whole string; at least one must be present.
TripleParses(name) ==
    /\ name # NoName
    /\ \E t \in PartialTriples : TripleText(t) = name

PartialTargetTriple_from_str(name) ==
    CHOOSE t \in PartialTriples : TripleText(t) = name

\* PartialToolchainDesc::from_str: a channel, then nothing or a partial triple.
DescParses(name) ==
    /\ Len(name) >= 1
    /\ name[1] \in CHANNELS
    /\ (Len(name) = 1 \/ TripleParses(Tail(name)))

PartialToolchainDesc_from_str(name) ==
    [channel |-> name[1],
     target  |-> IF Len(name) = 1
                 THEN [arch |-> None, os |-> None, env |-> None]
                 ELSE PartialTargetTriple_from_str(Tail(name))]

\* Display of PartialToolchainDesc: the channel, then the present components.
DescText(desc) == <<desc.channel>> \o TripleText(desc.target)

\* PartialToolchainDesc::resolve: the absent components come from the host;
\* the host's env is only taken when the os was left to the host as well.
ResolveDesc(desc) ==
    [channel |-> desc.channel,
     target  |-> [arch |-> IF desc.target.arch = None THEN HostTriple.arch
                           ELSE desc.target.arch,
                  os   |-> IF desc.target.os = None THEN HostTriple.os
                           ELSE desc.target.os,
                  env  |-> IF desc.target.env = None /\ desc.target.os = None
                           THEN HostTriple.env ELSE desc.target.env]]

\* cfg.resolve_toolchain: the name a toolchain gets in cfg.get_toolchain.
ResolvedName(name) ==
    IF DescParses(name) THEN DescText(ResolveDesc(PartialToolchainDesc_from_str(name)))
    ELSE name

\* ToolchainDesc::from_str fails: channel-less names are custom toolchains.
is_custom(tcname) == ~(Len(tcname) >= 2 /\ tcname[1] \in CHANNELS)

\* A dist server has the toolchain: its target is a triple with arch and os.
DistAvailable(tcname) ==
    /\ DescParses(tcname)
    /\ PartialToolchainDesc_from_str(tcname).target.arch # None
    /\ PartialToolchainDesc_from_str(tcname).target.os # None

(* --------------------------- results, output, port calls -------------- *)

Ok == [kind |-> "Ok", name |-> NoName]

\* Err(ErrorKind::<kind>(<name>))
Err(kind, name) == [kind |-> kind, name |-> name]

\* The `?` on a failing call of cfg or of a toolchain: its error is returned.
PortError(port) == [kind |-> "PortError", name |-> <<port>>]

\* One line on the terminal: warn!, info!, err! or println!, with the names it shows.
Msg(level, text, names) == [level |-> level, text |-> text, names |-> names]

\* One call of a cfg/toolchain/settings method, with its name and flag arguments.
Call(port, name, flag) == [port |-> port, name |-> name, flag |-> flag]

\* The ports a command can find failing.
Faults == {"none", "list_toolchains", "find_default", "get_toolchain",
           "install_from_dist", "make_default"}

\* default.map(|t| t.name().to_string()).unwrap_or("".into())
default_name_of(dflt) == IF dflt = NoName THEN NoName ELSE ResolvedName(dflt)

(* --------------------------- update_bare_triple_check ----------------- *)

\* from_desc.map_or(true, ..): a descriptor lacking the component passes.
triple_comp_eq_lenient(given, from_desc) == from_desc = None \/ from_desc = given

triple_comp_eq(given, from_desc) == from_desc # None /\ from_desc = given

triple_matches(triple, desc) ==
    /\ (triple.arch = None \/ triple_comp_eq(triple.arch, desc.target.arch))
    /\ (triple.os = None \/ triple_comp_eq(triple.os, desc.target.os))
    /\ (triple.env = None \/ triple_comp_eq(triple.env, desc.target.env))

\* The loop body without `if t == default_name { continue; }`.
is_candidate_with_default(t, default_name, triple) ==
    IF DescParses(t)
    THEN triple_matches(triple, PartialToolchainDesc_from_str(t))
    ELSE FALSE

\* The body of `for t in installed_toolchains`: does t become a candidate?
is_candidate(t, default_name, triple) ==
    IF t = default_name THEN FALSE
    ELSE IF DescParses(t)
         THEN triple_matches(triple, PartialToolchainDesc_from_str(t))
         ELSE FALSE

RECURSIVE candidates_loop(_, _, _, _)
candidates_loop(installed_toolchains, default_name, triple, candidates) ==
    IF installed_toolchains = <<>> THEN candidates
    ELSE candidates_loop(Tail(installed_toolchains), default_name, triple,
                         IF is_candidate(Head(installed_toolchains), default_name, triple)
                         THEN Append(candidates, Head(installed_toolchains))
                         ELSE candidates)

\* The match without its 0 arm's err!.
candidates_report_no_error(candidates) ==
    IF Len(candidates) = 0 THEN <<>>
    ELSE IF Len(candidates) = 1
         THEN <<Msg("out", "you may use the following toolchain", <<candidates[1]>>)>>
         ELSE <<Msg("out", "you may use one of the following toolchains", candidates)>>

\* match candidates.len() { 0 => err!, 1 => println!, _ => println! of each }
candidates_report(candidates) ==
    IF Len(candidates) = 0
    THEN <<Msg("err", "no candidate toolchains found", <<>>)>>
    ELSE IF Len(candidates) = 1
         THEN <<Msg("out", "you may use the following toolchain", <<candidates[1]>>)>>
         ELSE <<Msg("out", "you may use one of the following toolchains", candidates)>>

\* The `return Err(..)` moved into the 0 arm: the reporting arms reach Ok(()).
update_check_falls_through(name, candidates) ==
    IF candidates = <<>> THEN Err("ToolchainNotInstalled", name) ELSE Ok

\* The error names the single candidate instead of the input.
update_check_names_candidate(name, candidates) ==
    Err("ToolchainNotInstalled", IF Len(candidates) = 1 THEN candidates[1] ELSE name)

\* What the check returns once the candidates are reported.
update_check_failure(name, candidates) == Err("ToolchainNotInstalled", name)

TripleWarning == Msg("warn", "(partial) target triple specified instead of toolchain name", <<>>)

\* A check's record: its input, what it saw, printed, called and returned.
CheckRec(name, result, out, calls, candidates, reached) ==
    [name |-> name, result |-> result, out |-> out, calls |-> calls,
     candidates |-> candidates, reached |-> reached]

\* The check's record together with the toolchains directory and default it ran on.
Seen(rec, inst, dflt) ==
    [name |-> rec.name, result |-> rec.result, out |-> rec.out, calls |-> rec.calls,
     candidates |-> rec.candidates, reached |-> rec.reached,
     inst |-> inst, dflt |-> dflt]

update_bare_triple_check(name, inst, dflt, fault) ==
    IF TripleParses(name)
    THEN LET triple == PartialTargetTriple_from_str(name)
             c1 == <<Call("list_toolchains", NoName, FALSE)>>
             c2 == Append(c1, Call("find_default", NoName, FALSE))
             default_name == default_name_of(dflt)
             candidates == candidates_loop(inst, default_name, triple, <<>>)
         IN  IF fault = "list_toolchains"
             THEN CheckRec(name, PortError("list_toolchains"), <<TripleWarning>>, c1,
                           <<>>, "list_toolchains")
             ELSE IF fault = "find_default"
             THEN CheckRec(name, PortError("find_default"), <<TripleWarning>>, c2,
                           <<>>, "find_default")
             ELSE CheckRec(name, update_check_failure(name, candidates),
                           <<TripleWarning>> \o candidates_report(candidates), c2,
                           candidates, "match")
    ELSE CheckRec(name, Ok, <<>>, <<>>, <<>>, "not_triple")

(* --------------------------- default_bare_triple_check ---------------- *)

\* Only the components the query holds are written over the default's.
maybe_toolchain_merged(default_name, triple) ==
    LET desc == PartialToolchainDesc_from_str(default_name)
        pick(comp) == IF triple[comp] = None THEN desc.target[comp] ELSE triple[comp]
    IN  DescText([channel |-> desc.channel,
                  target  |-> [arch |-> pick("arch"), os |-> pick("os"), env |-> pick("env")]])

\* desc.target = triple; format!("{}", desc)
maybe_toolchain(default_name, triple) ==
    DescText([channel |-> PartialToolchainDesc_from_str(default_name).channel,
              target  |-> triple])

\* The println! shows `name`, as the warn! of the other branch does.
suggested_name_is_input(name, toolchain_name) == name

\* The name the println! of the else branch shows.
suggested_name(name, toolchain_name) == toolchain_name

\* if toolchain.name() == default_name { warn! } else { println! }
default_report(name, toolchain_name, default_name) ==
    IF toolchain_name = default_name
    THEN <<Msg("warn", "resolves to a toolchain that is already default", <<name>>)>>
    ELSE <<Msg("out", "you may use the following toolchain",
               <<suggested_name(name, toolchain_name)>>)>>

\* cfg.get_toolchain(maybe_toolchain.as_ref(), false)
default_check_lookup(maybe) == Call("get_toolchain", maybe, FALSE)

\* The `return Err(..)` placed after the if-let instead of inside it.
default_check_no_desc_fails(name) == Err("ToolchainNotInstalled", name)

\* The default's name does not parse as a descriptor: the if-let falls through.
default_check_no_desc(name) == Ok

default_bare_triple_check(name, dflt, fault) ==
    IF TripleParses(name)
    THEN LET triple == PartialTargetTriple_from_str(name)
             c1 == <<Call("find_default", NoName, FALSE)>>
             default_name == default_name_of(dflt)
         IN  IF fault = "find_default"
             THEN CheckRec(name, PortError("find_default"), <<TripleWarning>>, c1,
                           <<>>, "find_default")
             ELSE IF DescParses(default_name)
             THEN LET maybe == maybe_toolchain(default_name, triple)
                      c2 == Append(c1, default_check_lookup(maybe))
                      toolchain_name == ResolvedName(maybe)
                  IN  IF fault = "get_toolchain"
                      THEN CheckRec(name, PortError("get_toolchain"), <<TripleWarning>>,
                                    c2, <<>>, "get_toolchain")
                      ELSE CheckRec(name, Err("ToolchainNotInstalled", name),
                                    <<TripleWarning>>
                                        \o default_report(name, toolchain_name, default_name),
                                    c2, <<toolchain_name>>, "match")
             ELSE CheckRec(name, default_check_no_desc(name), <<TripleWarning>>, c1,
                           <<>>, "no_desc")
    ELSE CheckRec(name, Ok, <<>>, <<>>, <<>>, "not_triple")

(* --------------------------- update ----------------------------------- *)

Contains(seq, x) == \E i \in DOMAIN seq : seq[i] = x

Remove(seq, x) == SelectSeq(seq, LAMBDA y : y # x)

\* toolchain.install_from_dist: the toolchain's directory exists afterwards.
Installed(inst, tcname) == IF Contains(inst, tcname) THEN inst ELSE Append(inst, tcname)

\* A command's run so far: the toolchains directory, the default, and what was
\* checked, called and printed; result is Ok while the command goes on.
Run(inst, dflt, result, checks, calls, out) ==
    [installed |-> inst, dflt |-> dflt, result |-> result, checks |-> checks,
     calls |-> calls, out |-> out]

Failed(run, result, calls, out) ==
    Run(run.installed, run.dflt, result, run.checks, run.calls \o calls, run.out \o out)

\* One turn of `for name in names`, after the check let the name through.
update_one(run, name, force, fault) ==
    LET lookup == <<Call("get_toolchain", name, FALSE)>>
        tcname == ResolvedName(name)
        install == <<Call("install_from_dist", tcname, force)>>
    IN  IF fault = "get_toolchain"
        THEN Failed(run, PortError("get_toolchain"), lookup, <<>>)
        ELSE IF ~is_custom(tcname)
        THEN IF fault = "install_from_dist" \/ ~DistAvailable(tcname)
             THEN Failed(run, PortError("install_from_dist"), lookup \o install, <<>>)
             ELSE Run(Installed(run.installed, tcname), run.dflt, Ok, run.checks,
                      run.calls \o lookup \o install,
                      Append(run.out, Msg("out", "channel update", <<tcname>>)))
        ELSE IF ~Contains(run.installed, tcname)
        THEN Failed(run, Err("InvalidToolchainName", tcname), lookup, <<>>)
        ELSE Failed(run, Ok, lookup, <<>>)

\* The check's result dropped: `update_bare_triple_check(cfg, name);` without `?`.
update_name_unchecked(run, name, force, fault) ==
    LET chk == update_bare_triple_check(name, run.installed, run.dflt, fault)
        checked == Run(run.installed, run.dflt, chk.result,
                       Append(run.checks, Seen(chk, run.installed, run.dflt)),
                       run.calls \o <<Call("update_bare_triple_check", name, FALSE)>>
                                 \o chk.calls,
                       run.out \o chk.out)
    IN  update_one(checked, name, force, fault)

\* update_bare_triple_check(cfg, name)?; then the rest of the turn.
update_name(run, name, force, fault) ==
    LET chk == update_bare_triple_check(name, run.installed, run.dflt, fault)
        checked == Run(run.installed, run.dflt, chk.result,
                       Append(run.checks, Seen(chk, run.installed, run.dflt)),
                       run.calls \o <<Call("update_bare_triple_check", name, FALSE)>>
                                 \o chk.calls,
                       run.out \o chk.out)
    IN  IF chk.result # Ok THEN checked
        ELSE update_one(checked, name, force, fault)

\* The loop without the early returns of `?`: a failed turn is followed by the
\* next name's.
RECURSIVE update_loop_keeps_going(_, _, _, _)
update_loop_keeps_going(run, names, force, fault) ==
    IF names = <<>> THEN run
    ELSE update_loop_keeps_going(update_name(run, Head(names), force, fault),
                                 Tail(names), force, fault)

RECURSIVE update_loop(_, _, _, _)
update_loop(run, names, force, fault) ==
    IF names = <<>> \/ run.result # Ok THEN run
    ELSE update_loop(update_name(run, Head(names), force, fault), Tail(names), force, fault)

\* update(cfg, m); has_names is m.values_of("toolchain").is_some().
update(inst, dflt, has_names, names, no_self_update, force, fault) ==
    LET start == Run(inst, dflt, Ok, <<>>, <<>>, <<>>)
        looped == update_loop(start, names, force, fault)
    IN  IF has_names
        THEN IF looped.result # Ok THEN looped
             ELSE IF ~no_self_update
                  THEN Failed(looped, Ok, <<Call("self_update", NoName, FALSE)>>, <<>>)
                  ELSE looped
        ELSE Failed(start, Ok, <<Call("update_all_channels", NoName, force)>>, <<>>)

(* --------------------------- default ---------------------------------- *)

\* default_ with make_default above the test of toolchain.exists().
default_set_before_exists(run, name, fault) ==
    LET lookup == <<Call("get_toolchain", name, FALSE)>>
        tcname == ResolvedName(name)
        install == <<Call("install_from_dist_if_not_installed", tcname, FALSE)>>
        make == <<Call("make_default", tcname, FALSE)>>
        status == IF is_custom(tcname) THEN <<>>
                  ELSE <<Msg("out", "channel update", <<tcname>>)>>
        calls == lookup \o (IF is_custom(tcname) THEN <<>> ELSE install)
    IN  IF fault = "get_toolchain"
        THEN Failed(run, PortError("get_toolchain"), lookup, <<>>)
        ELSE IF ~is_custom(tcname) /\ (fault = "install_from_dist" \/ ~DistAvailable(tcname))
        THEN Failed(run, PortError("install_from_dist"), calls, <<>>)
        ELSE IF is_custom(tcname) /\ ~Contains(run.installed, tcname)
        THEN Run(run.installed, tcname, Err("ToolchainNotInstalled", tcname), run.checks,
                 run.calls \o calls \o make, run.out)
        ELSE IF fault = "make_default"
        THEN Run(IF is_custom(tcname) THEN run.installed
                 ELSE Installed(run.installed, tcname),
                 run.dflt, PortError("make_default"), run.checks,
                 run.calls \o calls \o make, run.out)
        ELSE Run(IF is_custom(tcname) THEN run.installed
                 ELSE Installed(run.installed, tcname),
                 tcname, Ok, run.checks, run.calls \o calls \o make, run.out \o status)

\* default_(cfg, m) after the check let the name through.
default_set(run, name, fault) ==
    LET lookup == <<Call("get_toolchain", name, FALSE)>>
        tcname == ResolvedName(name)
        install == <<Call("install_from_dist_if_not_installed", tcname, FALSE)>>
        make == <<Call("make_default", tcname, FALSE)>>
        status == IF is_custom(tcname) THEN <<>>
                  ELSE <<Msg("out", "channel update", <<tcname>>)>>
        calls == lookup \o (IF is_custom(tcname) THEN <<>> ELSE install)
    IN  IF fault = "get_toolchain"
        THEN Failed(run, PortError("get_toolchain"), lookup, <<>>)
        ELSE IF ~is_custom(tcname) /\ (fault = "install_from_dist" \/ ~DistAvailable(tcname))
        THEN Failed(run, PortError("install_from_dist"), calls, <<>>)
        ELSE IF is_custom(tcname) /\ ~Contains(run.installed, tcname)
        THEN Failed(run, Err("ToolchainNotInstalled", tcname), calls, <<>>)
        ELSE IF fault = "make_default"
        THEN Run(IF is_custom(tcname) THEN run.installed
                 ELSE Installed(run.installed, tcname),
                 run.dflt, PortError("make_default"), run.checks,
                 run.calls \o calls \o make, run.out)
        ELSE Run(IF is_custom(tcname) THEN run.installed
                 ELSE Installed(run.installed, tcname),
                 tcname, Ok, run.checks, run.calls \o calls \o make, run.out \o status)

\* default_(cfg, m); has_name is m.is_present("toolchain").
default_(inst, dflt, has_name, name, fault) ==
    LET start == Run(inst, dflt, Ok, <<>>, <<>>, <<>>)
        chk == default_bare_triple_check(name, dflt, fault)
        checked == Run(inst, dflt, chk.result, <<Seen(chk, inst, dflt)>>,
                       <<Call("default_bare_triple_check", name, FALSE)>> \o chk.calls,
                       chk.out)
    IN  IF has_name
        THEN IF chk.result # Ok THEN checked ELSE default_set(checked, name, fault)
        ELSE IF dflt = NoName \/ fault = "find_default"
             THEN Failed(start, PortError("get_default"),
                         <<Call("get_default", NoName, FALSE)>>, <<>>)
             ELSE Failed(start, Ok, <<Call("get_default", NoName, FALSE)>>,
                         <<Msg("out", "(default)", <<dflt>>)>>)

(* --------------------------- toolchain link / uninstall --------------- *)

\* toolchain_link(cfg, m): only a custom name can be linked to a directory.
toolchain_link(inst, dflt, name, fault) ==
    LET start == Run(inst, dflt, Ok, <<>>, <<>>, <<>>)
        lookup == <<Call("get_toolchain", name, TRUE)>>
        tcname == ResolvedName(name)
        link == <<Call("install_from_dir", tcname, TRUE)>>
    IN  IF fault = "get_toolchain"
        THEN Failed(start, PortError("get_toolchain"), lookup, <<>>)
        ELSE IF ~is_custom(tcname)
        THEN Failed(start, PortError("install_from_dir"), lookup \o link, <<>>)
        ELSE Run(Installed(inst, tcname), dflt, Ok, <<>>, lookup \o link, <<>>)

RECURSIVE toolchain_remove_loop(_, _, _)
toolchain_remove_loop(run, names, fault) ==
    IF names = <<>> \/ run.result # Ok THEN run
    ELSE LET lookup == <<Call("get_toolchain", Head(names), FALSE)>>
             tcname == ResolvedName(Head(names))
         IN  toolchain_remove_loop(
                 IF fault = "get_toolchain"
                 THEN Failed(run, PortError("get_toolchain"), lookup, <<>>)
                 ELSE Run(Remove(run.installed, tcname), run.dflt, Ok, run.checks,
                          run.calls \o lookup \o <<Call("remove", tcname, FALSE)>>,
                          run.out),
                 Tail(names), fault)

\* toolchain_remove(cfg, m)
toolchain_remove(inst, dflt, names, fault) ==
    toolchain_remove_loop(Run(inst, dflt, Ok, <<>>, <<>>, <<>>), names, fault)

(* --------------------------- override set / unset --------------------- *)

\* The directories the commands are run in and given.
Paths == { <<"/tmp/a">>, <<"/deleted/b">>, <<"/c">> }

\* Path::new(k).is_dir()
is_dir(existing, k) == k \in existing

HasOverride(ovr, path) == \E i \in DOMAIN ovr : ovr[i].path = path

\* settings.remove_override(path): the entry of the path is dropped; true iff
\* there was one.
remove_override(ovr, path) ==
    [removed |-> HasOverride(ovr, path),
     overrides |-> SelectSeq(ovr, LAMBDA e : e.path # path)]

\* toolchain.make_override(path): the path's entry is set to the toolchain.
make_override(ovr, path, tcname) ==
    IF HasOverride(ovr, path)
    THEN [i \in DOMAIN ovr |-> IF ovr[i].path = path
                               THEN [path |-> path, toolchain |-> tcname] ELSE ovr[i]]
    ELSE Append(ovr, [path |-> path, toolchain |-> tcname])

\* The filter_map with its arms swapped: the keys that are a directory.
RECURSIVE nonexistent_paths_existing(_, _)
nonexistent_paths_existing(ovr, existing) ==
    IF ovr = <<>> THEN <<>>
    ELSE (IF is_dir(existing, Head(ovr).path) THEN <<Head(ovr).path>> ELSE <<>>)
             \o nonexistent_paths_existing(Tail(ovr), existing)

\* s.overrides.iter().filter_map(..).collect(): the keys that are no directory.
RECURSIVE nonexistent_paths(_, _)
nonexistent_paths(ovr, existing) ==
    IF ovr = <<>> THEN <<>>
    ELSE (IF is_dir(existing, Head(ovr).path) THEN <<>> ELSE <<Head(ovr).path>>)
             \o nonexistent_paths(Tail(ovr), existing)

\* An override command's run so far.
ORun(inst, ovr, result, calls, out, selected) ==
    [installed |-> inst, overrides |-> ovr, result |-> result, calls |-> calls,
     out |-> out, selected |-> selected]

\* `if list.is_empty()` without its info!.
empty_selection_report_silent(list) == <<>>

\* if list.is_empty() { info!(..) }
empty_selection_report(list) ==
    IF list = <<>> THEN <<Msg("info", "no nonexistent paths detected", <<>>)>> ELSE <<>>

\* Both arms of the turn print the first arm's line.
removal_report_claims_removed(path, removed, has_path, nonexistent) ==
    <<Msg("info", "override toolchain removed", <<path>>)>>

\* The hint without its condition on --path and --nonexistent.
removal_report_hint_always(path, removed, has_path, nonexistent) ==
    IF removed
    THEN <<Msg("info", "override toolchain removed", <<path>>)>>
    ELSE <<Msg("info", "no override toolchain", <<path>>),
           Msg("info", "you may use --path option to remove override toolchain for a specific path", <<>>)>>

\* The info! lines of one turn of `for path in paths`.
removal_report(path, removed, has_path, nonexistent) ==
    IF removed
    THEN <<Msg("info", "override toolchain removed", <<path>>)>>
    ELSE <<Msg("info", "no override toolchain", <<path>>)>>
         \o (IF ~has_path /\ ~nonexistent
             THEN <<Msg("info", "you may use --path option to remove override toolchain for a specific path", <<>>)>>
             ELSE <<>>)

\* The turn with the directory looked at again: a path that is a directory by
\* now is left alone.
override_remove_turn_rechecks(run, path, has_path, nonexistent, fault) ==
    LET call == <<Call("remove_override", path, FALSE)>>
        rm == remove_override(run.overrides, path)
    IN  IF nonexistent /\ is_dir(dirs, path) THEN run
        ELSE IF fault = "settings.with_mut"
        THEN ORun(run.installed, run.overrides, PortError("settings.with_mut"),
                  run.calls \o call, run.out, run.selected)
        ELSE ORun(run.installed, rm.overrides, Ok, run.calls \o call,
                  run.out \o removal_report(path, rm.removed, has_path, nonexistent),
                  run.selected)

\* One turn of `for path in paths`.
override_remove_turn(run, path, has_path, nonexistent, fault) ==
    LET call == <<Call("remove_override", path, FALSE)>>
        rm == remove_override(run.overrides, path)
    IN  IF fault = "settings.with_mut"
        THEN ORun(run.installed, run.overrides, PortError("settings.with_mut"),
                  run.calls \o call, run.out, run.selected)
        ELSE ORun(run.installed, rm.overrides, Ok, run.calls \o call,
                  run.out \o removal_report(path, rm.removed, has_path, nonexistent),
                  run.selected)

\* `break` after the first path.
RECURSIVE override_remove_loop_first_only(_, _, _, _, _)
override_remove_loop_first_only(run, paths, has_path, nonexistent, fault) ==
    IF paths = <<>> \/ run.result # Ok THEN run
    ELSE override_remove_turn(run, Head(paths), has_path, nonexistent, fault)

\* for path in paths { .. }
RECURSIVE override_remove_loop(_, _, _, _, _)
override_remove_loop(run, paths, has_path, nonexistent, fault) ==
    IF paths = <<>> \/ run.result # Ok THEN run
    ELSE override_remove_loop(
             override_remove_turn(run, Head(paths), has_path, nonexistent, fault),
             Tail(paths), has_path, nonexistent, fault)

\* `let paths = ..`: the selection of override_remove, with the directories
\* it looks at.
override_remove_select(inst, ovr, existing, nonexistent, args, cwd, fault) ==
    LET has_path == args # <<>>
        list == nonexistent_paths(ovr, existing)
        looked == [i \in DOMAIN ovr |-> Call("is_dir", ovr[i].path, FALSE)]
        paths == IF nonexistent THEN list
                 ELSE IF has_path THEN <<args[1]>> ELSE <<cwd>>
        listed == IF nonexistent THEN empty_selection_report(list) ELSE <<>>
    IN  IF nonexistent /\ fault = "settings.with"
        THEN ORun(inst, ovr, PortError("settings.with"), <<>>, <<>>, <<>>)
        ELSE IF ~nonexistent /\ ~has_path /\ ~is_dir(existing, cwd)
        THEN ORun(inst, ovr, PortError("current_dir"), <<>>, <<>>, <<>>)
        ELSE ORun(inst, ovr, Ok, IF nonexistent THEN looked ELSE <<>>, listed, paths)

\* override_remove with --path ignored: the current directory is always taken.
override_remove_cwd_only(inst, ovr, existing, nonexistent, args, cwd, fault) ==
    LET has_path == args # <<>>
        list == nonexistent_paths(ovr, existing)
        paths == IF nonexistent THEN list
                 ELSE <<cwd>>
        listed == IF nonexistent THEN empty_selection_report(list) ELSE <<>>
        start == ORun(inst, ovr, Ok, <<>>, listed, paths)
    IN  IF nonexistent /\ fault = "settings.with"
        THEN ORun(inst, ovr, PortError("settings.with"), <<>>, <<>>, <<>>)
        ELSE IF ~nonexistent /\ ~has_path /\ ~is_dir(existing, cwd)
        THEN ORun(inst, ovr, PortError("current_dir"), <<>>, <<>>, <<>>)
        ELSE override_remove_loop(start, paths, has_path, nonexistent, fault)

\* override_remove(cfg, m); args is <<path>> with --path and <<>> without.
override_remove(inst, ovr, existing, nonexistent, args, cwd, fault) ==
    LET has_path == args # <<>>
        list == nonexistent_paths(ovr, existing)
        paths == IF nonexistent THEN list
                 ELSE IF has_path THEN <<args[1]>> ELSE <<cwd>>
        listed == IF nonexistent THEN empty_selection_report(list) ELSE <<>>
        start == ORun(inst, ovr, Ok, <<>>, listed, paths)
    IN  IF nonexistent /\ fault = "settings.with"
        THEN ORun(inst, ovr, PortError("settings.with"), <<>>, <<>>, <<>>)
        ELSE IF ~nonexistent /\ ~has_path /\ ~is_dir(existing, cwd)
        THEN ORun(inst, ovr, PortError("current_dir"), <<>>, <<>>, <<>>)
        ELSE override_remove_loop(start, paths, has_path, nonexistent, fault)

\* override_add(cfg, m)
override_add(inst, ovr, existing, name, cwd, fault) ==
    LET lookup == <<Call("get_toolchain", name, FALSE)>>
        tcname == ResolvedName(name)
        install == <<Call("install_from_dist_if_not_installed", tcname, FALSE)>>
        make == <<Call("make_override", cwd, FALSE)>>
        status == IF is_custom(tcname) THEN <<>>
                  ELSE <<Msg("out", "channel update", <<tcname>>)>>
        calls == lookup \o (IF is_custom(tcname) THEN <<>> ELSE install)
        fail(result, cs) == ORun(inst, ovr, result, cs, <<>>, <<>>)
    IN  IF fault = "get_toolchain"
        THEN fail(PortError("get_toolchain"), lookup)
        ELSE IF ~is_custom(tcname) /\ (fault = "install_from_dist" \/ ~DistAvailable(tcname))
        THEN fail(PortError("install_from_dist"), calls)
        ELSE IF is_custom(tcname) /\ ~Contains(inst, tcname)
        THEN fail(Err("ToolchainNotInstalled", tcname), calls)
        ELSE IF ~is_dir(existing, cwd)
        THEN fail(PortError("current_dir"), calls)
        ELSE ORun(IF is_custom(tcname) THEN inst ELSE Installed(inst, tcname),
                  make_override(ovr, cwd, tcname), Ok, calls \o make, status, <<>>)

(* --------------------------- show / show-active-toolchain ------------- *)

\* path is dir or a directory above it.
applies_to(path, dir) ==
    Len(path) <= Len(dir) /\ \A i \in DOMAIN path : path[i] = dir[i]

\* The reason of a toolchain an override supplied: the directory of the entry.
OverrideReason(path) == <<"directory override", path>>

\* Ok(None), Ok(Some((toolchain, reason))) with reason None or Some, and Err.
Found(result, toolchain, reason) ==
    [result |-> result, toolchain |-> toolchain, reason |-> reason]

\* cfg.find_override_toolchain_or_default(cwd): the toolchain of the override
\* of the directory or of one above it, else the default; an error when the
\* one that applies names a toolchain that is not installed.
find_override_toolchain_or_default(inst, dflt, ovr, cwd, fault) ==
    LET hits == SelectSeq(ovr, LAMBDA e : applies_to(e.path, cwd))
        failed == Found(PortError("find_override_toolchain_or_default"), NoName, None)
    IN  IF fault = "find_override_toolchain_or_default" THEN failed
        ELSE IF hits # <<>>
        THEN IF Contains(inst, hits[1].toolchain)
             THEN Found(Ok, hits[1].toolchain, OverrideReason(hits[1].path))
             ELSE failed
        ELSE IF dflt = NoName THEN Found(Ok, NoName, None)
        ELSE IF Contains(inst, dflt) THEN Found(Ok, dflt, None)
        ELSE failed

\* The reason is printed where the default's line has "default".
active_line_swapped(found) ==
    IF found.reason = None
    THEN Msg("out", "active toolchain (directory override)", <<found.toolchain>>)
    ELSE Msg("out", "active toolchain (default)", <<found.toolchain, found.reason[2]>>)

\* "{} ({})" with the reason, "{} (default)" without.
active_line(found) ==
    IF found.reason # None
    THEN Msg("out", "active toolchain (directory override)",
             <<found.toolchain, found.reason[2]>>)
    ELSE Msg("out", "active toolchain (default)", <<found.toolchain>>)

\* The lookup of show_active_toolchain without its `?`: the error is dropped.
lookup_error_dropped(start, lookup, found) ==
    ORun(start.installed, start.overrides, Ok, lookup, <<>>, <<>>)

\* The `?` of line 781 on a lookup that failed.
lookup_error(start, lookup, found) ==
    ORun(start.installed, start.overrides, found.result, lookup, <<>>, <<>>)

\* show_active_toolchain(cfg)
show_active_toolchain(inst, dflt, ovr, existing, cwd, fault) ==
    LET start == ORun(inst, ovr, Ok, <<>>, <<>>, <<>>)
        lookup == <<Call("find_override_toolchain_or_default", cwd, FALSE)>>
        found == find_override_toolchain_or_default(inst, dflt, ovr, cwd, fault)
    IN  IF ~is_dir(existing, cwd)
        THEN ORun(inst, ovr, PortError("current_dir"), <<>>, <<>>, <<>>)
        ELSE IF found.result # Ok THEN lookup_error(start, lookup, found)
        ELSE IF found.toolchain # NoName
        THEN ORun(inst, ovr, Ok, lookup, <<active_line(found)>>, <<>>)
        ELSE ORun(inst, ovr, Ok, lookup, <<>>, <<>>)

\* print_header(t, s)
print_header(show_headers, s) ==
    IF show_headers THEN <<Msg("out", "header", <<<<s>>>>)>> ELSE <<>>

\* The section of show on the installed toolchains.
installed_section(inst, dflt, show_headers) ==
    print_header(show_headers, "installed toolchains")
        \o [i \in DOMAIN inst |->
                IF inst[i] = dflt THEN Msg("out", "installed toolchain (default)", <<inst[i]>>)
                ELSE Msg("out", "installed toolchain", <<inst[i]>>)]

\* The section of show on the targets of the active toolchain.
targets_section(active_targets, show_headers) ==
    print_header(show_headers, "installed targets for active toolchain")
        \o [i \in DOMAIN active_targets |->
                Msg("out", "installed target", <<active_targets[i]>>)]

\* The Err arm of `match active_toolchain`: the error is a line of the output.
active_error(found) == [result |-> Ok, out |-> <<Msg("out", "(error)", <<>>)>>]

\* match active_toolchain { .. }
active_section(found, show_headers) ==
    LET header == print_header(show_headers, "active toolchain")
        arm == IF found.result # Ok THEN active_error(found)
               ELSE IF found.toolchain # NoName
               THEN [result |-> Ok,
                     out |-> <<active_line(found),
                               Msg("out", "rustc version", <<found.toolchain>>)>>]
               ELSE [result |-> Ok, out |-> <<Msg("out", "no active toolchain", <<>>)>>]
    IN  [result |-> arm.result, out |-> header \o arm.out]

\* show(cfg); targets is what list_components gives of rust-std for the active
\* toolchain.
show(inst, dflt, ovr, existing, cwd, targets, fault) ==
    LET host == <<Call("get_default_host_triple", NoName, FALSE)>>
        host_line == <<Msg("out", "Default host", <<TripleText(HostTriple)>>)>>
        list == <<Call("list_toolchains", NoName, FALSE)>>
        lookup == <<Call("find_override_toolchain_or_default", cwd, FALSE)>>
        found == find_override_toolchain_or_default(inst, dflt, ovr, cwd, fault)
        active == found.result = Ok /\ found.toolchain # NoName
        components == IF active THEN <<Call("list_components", found.toolchain, FALSE)>>
                      ELSE <<>>
        active_targets == IF active THEN targets ELSE <<>>
        show_installed_toolchains == Len(inst) > 1
        show_active_targets == Len(active_targets) > 1
        show_headers == show_installed_toolchains \/ show_active_targets
        get_default == IF show_installed_toolchains
                       THEN <<Call("get_default", NoName, FALSE)>> ELSE <<>>
        calls == host \o list \o lookup \o components \o get_default
        section == active_section(found, show_headers)
    IN  IF ~is_dir(existing, cwd)
        THEN ORun(inst, ovr, PortError("current_dir"), host, host_line, <<>>)
        ELSE IF fault = "list_toolchains"
        THEN ORun(inst, ovr, PortError("list_toolchains"), host \o list, host_line, <<>>)
        ELSE IF show_installed_toolchains /\ dflt = NoName
        THEN ORun(inst, ovr, PortError("get_default"), calls, host_line, <<>>)
        ELSE ORun(inst, ovr, section.result, calls,
                  host_line
                      \o (IF show_installed_toolchains
                          THEN installed_section(inst, dflt, show_headers) ELSE <<>>)
                      \o (IF show_active_targets
                          THEN targets_section(active_targets, show_headers) ELSE <<>>)
                      \o section.out,
                  <<>>)

(* --------------------------- the commands as actions ------------------ *)

\* The toolchain arguments the commands are tried with.
ArgNames ==
    { <<"stable">>,
      <<"stable", "i686">>,
      <<"nightly", "x86_64", "apple", "darwin">>,
      <<"stable", "mytc">>,
      <<"mytc">>,
      <<"x86_64", "unknown", "linux", "gnu">>,
      <<"x86_64">>,
      <<"i686">>,
      <<"gnu">>,
      <<"gnu", "x86_64">> }

\* The names the longer argument lists of `update` are made of.
ListNames == { <<"stable">>, <<"mytc">>, <<"gnu">> }

\* The names `toolchain link` is tried with.
LinkNames == { <<"mytc">>, <<"x86_64">>, <<"stable", "x86_64">> }

SeqsUpTo(S, n) == UNION {[1..k -> S] : k \in 0..n}

\* The argument lists of `update`: none, any one name, or a list of ListNames.
UpdateArgs == {<<n>> : n \in ArgNames} \cup SeqsUpTo(ListNames, MaxArgs)

\* --no-self-update and the failing port `update` is tried with.  --force only
\* reaches install_from_dist as its argument and is left unset.
UpdateModes ==
    {<<nsu, "none">> : nsu \in BOOLEAN} \cup
    {<<FALSE, f>> : f \in {"list_toolchains", "find_default", "get_toolchain",
                            "install_from_dist"}}

\* No command is running: the shell is at its prompt.
Idle ==
    [cmd |-> "none", names |-> <<>>, flags |-> <<>>, cwd |-> NoName, fault |-> "none",
     result |-> Ok, checks |-> <<>>, calls |-> <<>>, out |-> <<>>, selected |-> <<>>,
     pending |-> <<>>,
     before |-> [installed |-> <<>>, dflt |-> NoName, overrides |-> <<>>, dirs |-> {}]]

\* What a command leaves in `last`.
Record(cmd, names, flags, fault, run) ==
    [cmd |-> cmd, names |-> names, flags |-> flags, cwd |-> NoName, fault |-> fault,
     result |-> run.result, checks |-> run.checks, calls |-> run.calls, out |-> run.out,
     selected |-> <<>>, pending |-> <<>>,
     before |-> [installed |-> installed, dflt |-> default_toolchain,
                 overrides |-> overrides, dirs |-> dirs]]

Commit(cmd, names, flags, fault, run) ==
    /\ last = Idle
    /\ Len(run.installed) <= MaxInstalled
    /\ installed' = run.installed
    /\ default_toolchain' = run.dflt
    /\ last' = Record(cmd, names, flags, fault, run)
    /\ UNCHANGED <<overrides, dirs>>

Update ==
    \E names \in UpdateArgs, mode \in UpdateModes :
        Commit("update", names, <<mode[1]>>, mode[2],
               update(installed, default_toolchain, names # <<>>, names,
                      mode[1], FALSE, mode[2]))

Default ==
    \E args \in SeqsUpTo(ArgNames, 1), fault \in Faults \ {"list_toolchains"} :
        Commit("default", args, <<>>, fault,
               default_(installed, default_toolchain, args # <<>>,
                        IF args = <<>> THEN NoName ELSE args[1], fault))

ToolchainLink ==
    \E name \in LinkNames, fault \in {"none", "get_toolchain"} :
        Commit("toolchain link", <<name>>, <<>>, fault,
               toolchain_link(installed, default_toolchain, name, fault))

ToolchainRemove ==
    \E name \in ArgNames, fault \in {"none", "get_toolchain"} :
        Commit("toolchain uninstall", <<name>>, <<>>, fault,
               toolchain_remove(installed, default_toolchain, <<name>>, fault))

\* The toolchain arguments `override set` is tried with.
OverrideNames == { <<"stable">>, <<"mytc">> }

RecordO(cmd, names, flags, cwd, fault, run) ==
    [cmd |-> cmd, names |-> names, flags |-> flags, cwd |-> cwd, fault |-> fault,
     result |-> run.result, checks |-> <<>>, calls |-> run.calls, out |-> run.out,
     selected |-> run.selected, pending |-> <<>>,
     before |-> [installed |-> installed, dflt |-> default_toolchain,
                 overrides |-> overrides, dirs |-> dirs]]

CommitO(cmd, names, flags, cwd, fault, run) ==
    /\ last = Idle
    /\ Len(run.installed) <= MaxInstalled
    /\ Len(run.overrides) <= MaxOverrides
    /\ installed' = run.installed
    /\ overrides' = run.overrides
    /\ last' = RecordO(cmd, names, flags, cwd, fault, run)
    /\ UNCHANGED <<default_toolchain, dirs>>

OverrideAdd ==
    \E name \in OverrideNames, cwd \in Paths,
       fault \in {"none", "get_toolchain", "install_from_dist"} :
        CommitO("override set", <<name>>, <<>>, cwd, fault,
                override_add(installed, overrides, dirs, name, cwd, fault))

OverrideRemove ==
    \E nonexistent \in BOOLEAN, args \in SeqsUpTo(Paths, 1), cwd \in Paths,
       fault \in {"none", "settings.with", "settings.with_mut"} :
        CommitO("override unset", args, <<nonexistent>>, cwd, fault,
                override_remove(installed, overrides, dirs, nonexistent, args, cwd, fault))

\* Another process creates a directory.
MkDir ==
    \E path \in Paths :
        /\ last = Idle
        /\ path \notin dirs
        /\ dirs' = dirs \cup {path}
        /\ UNCHANGED <<installed, default_toolchain, overrides, last>>

\* Another process removes a directory.
RmDir ==
    \E path \in Paths :
        /\ last = Idle
        /\ path \in dirs
        /\ dirs' = dirs \ {path}
        /\ UNCHANGED <<installed, default_toolchain, overrides, last>>

\* main returns: the process ends and its output scrolls away.
Exit ==
    /\ last # Idle
    /\ last.pending = <<>>
    /\ last' = Idle
    /\ UNCHANGED <<installed, default_toolchain, overrides, dirs>>

Init ==
    /\ installed = <<>>
    /\ default_toolchain = NoName
    /\ overrides = <<>>
    /\ dirs = {}
    /\ last = Idle

Next == Update \/ Default \/ ToolchainLink \/ ToolchainRemove \/ Exit

\* The commands on toolchain names.
Spec == Init /\ [][Next]_vars

NextOverride == OverrideAdd \/ OverrideRemove \/ MkDir \/ RmDir \/ Exit

\* The commands on directory overrides, with the directories coming and going.
SpecOverride == Init /\ [][NextOverride]_vars

\* override_remove up to its loop: the paths are selected.
OverrideRemoveSelect ==
    \E nonexistent \in BOOLEAN, args \in SeqsUpTo(Paths, 1), cwd \in Paths,
       fault \in {"none", "settings.with", "settings.with_mut"} :
        LET run == override_remove_select(installed, overrides, dirs, nonexistent,
                                          args, cwd, fault)
        IN  /\ last = Idle
            /\ last' = [RecordO("override unset", args, <<nonexistent>>, cwd, fault, run)
                            EXCEPT !.pending = IF run.result = Ok THEN run.selected
                                               ELSE <<>>]
            /\ UNCHANGED <<installed, default_toolchain, overrides, dirs>>

\* The next turn of override_remove's loop.
OverrideRemoveTurn ==
    /\ last.cmd = "override unset"
    /\ last.pending # <<>>
    /\ LET run == override_remove_turn(
                      ORun(installed, overrides, last.result, last.calls, last.out,
                           last.selected),
                      Head(last.pending), last.names # <<>>, last.flags[1], last.fault)
       IN  /\ overrides' = run.overrides
           /\ last' = [last EXCEPT !.result = run.result, !.calls = run.calls,
                                   !.out = run.out,
                                   !.pending = IF run.result = Ok THEN Tail(last.pending)
                                               ELSE <<>>]
    /\ UNCHANGED <<installed, default_toolchain, dirs>>

\* Another process creates a directory while override_remove is in its loop.
MkDirMeanwhile ==
    \E path \in Paths :
        /\ last.pending # <<>>
        /\ path \notin dirs
        /\ dirs' = dirs \cup {path}
        /\ UNCHANGED <<installed, default_toolchain, overrides, last>>

\* Another process removes a directory while override_remove is in its loop.
RmDirMeanwhile ==
    \E path \in Paths :
        /\ last.pending # <<>>
        /\ path \in dirs
        /\ dirs' = dirs \ {path}
        /\ UNCHANGED <<installed, default_toolchain, overrides, last>>

NextPrune ==
    \/ OverrideAdd
    \/ OverrideRemoveSelect
    \/ OverrideRemoveTurn
    \/ MkDir
    \/ RmDir
    \/ MkDirMeanwhile
    \/ RmDirMeanwhile
    \/ Exit

\* override unset turn by turn, other processes at work on the directories.
SpecPrune == Init /\ [][NextPrune]_vars

\* What list_components is tried with: no rust-std target, or two.
ShowTargets == { <<>>, << <<"x86_64", "unknown", "linux", "gnu">>,
                         <<"i686", "unknown", "linux", "gnu">> >> }

\* The channel names `default` and `toolchain uninstall` are given beside show.
ChannelNames == { <<"stable">>, <<"nightly", "x86_64", "apple", "darwin">> }

\* `default <channel>`
DefaultChannel ==
    \E name \in ChannelNames :
        Commit("default", <<name>>, <<>>, "none",
               default_(installed, default_toolchain, TRUE, name, "none"))

\* `toolchain uninstall <channel>`
UninstallChannel ==
    \E name \in ChannelNames :
        Commit("toolchain uninstall", <<name>>, <<>>, "none",
               toolchain_remove(installed, default_toolchain, <<name>>, "none"))

Show ==
    \E cwd \in Paths, targets \in ShowTargets,
       fault \in {"none", "list_toolchains", "find_override_toolchain_or_default"} :
        CommitO("show", targets, <<>>, cwd, fault,
                show(installed, default_toolchain, overrides, dirs, cwd, targets, fault))

ShowActiveToolchain ==
    \E cwd \in Paths, fault \in {"none", "find_override_toolchain_or_default"} :
        CommitO("show active-toolchain", <<>>, <<>>, cwd, fault,
                show_active_toolchain(installed, default_toolchain, overrides, dirs,
                                      cwd, fault))

NextShow ==
    \/ Show
    \/ ShowActiveToolchain
    \/ DefaultChannel
    \/ UninstallChannel
    \/ OverrideAdd
    \/ MkDir
    \/ Exit

\* The commands that report, after those that set what they report.
SpecShow == Init /\ [][NextShow]_vars

(* --------------------------- properties ------------------------------- *)

UpdateChecks == IF last.cmd = "update" THEN last.checks ELSE <<>>

DefaultChecks == IF last.cmd = "default" THEN last.checks ELSE <<>>

\* The update check got the toolchains directory and the default, and went on
\* to list candidates.
CandidatesListed(c) ==
    /\ TripleParses(c.name)
    /\ last.fault \notin {"list_toolchains", "find_default"}

Components == {"arch", "os", "env"}

\* The matcher as the specification words it.
QueryMatches(query, desc) ==
    \A comp \in Components :
        query[comp] = None \/ (desc.target[comp] # None /\ desc.target[comp] = query[comp])

\* C1: update_bare_triple_check never returns Ok for a name that parses as a
\* partial triple; for any other name it returns Ok, prints nothing and calls
\* neither list_toolchains nor find_default.
C1_TripleNeverProceeds ==
    \A i \in DOMAIN UpdateChecks :
        LET c == UpdateChecks[i]
        IN  /\ TripleParses(c.name) => c.result # Ok
            /\ ~TripleParses(c.name) => (c.result = Ok /\ c.out = <<>> /\ c.calls = <<>>)

\* An update of a list held a name that is no triple and one that is, and the
\* latter's check listed a candidate.
C1_Witness ==
    \E i, j \in DOMAIN UpdateChecks :
        /\ ~TripleParses(UpdateChecks[i].name)
        /\ TripleParses(UpdateChecks[j].name)
        /\ UpdateChecks[j].candidates # <<>>

\* C2: the candidate list is the subsequence of the installed names, in their
\* order, of the names that are not the default's, parse as a descriptor and
\* match the query.
C2_CandidatesAreTheFilter ==
    \A i \in DOMAIN UpdateChecks :
        LET c == UpdateChecks[i]
            keep(t) == /\ t # default_name_of(c.dflt)
                       /\ DescParses(t)
                       /\ QueryMatches(PartialTargetTriple_from_str(c.name),
                                       PartialToolchainDesc_from_str(t))
        IN  CandidatesListed(c) => c.candidates = SelectSeq(c.inst, keep)

\* The default matched the query and was left out, a name that is no
\* descriptor was skipped, and a candidate was still found.
C2_Witness ==
    \E i \in DOMAIN UpdateChecks :
        LET c == UpdateChecks[i]
        IN  /\ CandidatesListed(c)
            /\ c.candidates # <<>>
            /\ Contains(c.inst, default_name_of(c.dflt))
            /\ DescParses(default_name_of(c.dflt))
            /\ QueryMatches(PartialTargetTriple_from_str(c.name),
                            PartialToolchainDesc_from_str(default_name_of(c.dflt)))
            /\ \E k \in DOMAIN c.inst : ~DescParses(c.inst[k])

\* C3: a component the query holds needs the same component, present and
\* equal, in the descriptor; a component the query lacks decides nothing; a
\* descriptor is a candidate iff all three components pass.
C3_MatcherIsQueryDriven ==
    \A i \in DOMAIN UpdateChecks :
        LET c == UpdateChecks[i]
            query == PartialTargetTriple_from_str(c.name)
        IN  CandidatesListed(c) =>
            \A k \in DOMAIN c.inst :
                LET t == c.inst[k]
                    target == PartialToolchainDesc_from_str(t).target
                    fails(comp) == query[comp] # None /\ target[comp] # query[comp]
                IN  (t # default_name_of(c.dflt) /\ DescParses(t)) =>
                    /\ (\E comp \in Components : fails(comp)) => ~Contains(c.candidates, t)
                    /\ (\A comp \in Components : ~fails(comp)) => Contains(c.candidates, t)

\* The query held an env, one descriptor lacked it and was no candidate, and
\* another descriptor, differing where the query holds nothing, was one.
C3_Witness ==
    \E i \in DOMAIN UpdateChecks :
        LET c == UpdateChecks[i]
            query == PartialTargetTriple_from_str(c.name)
        IN  /\ CandidatesListed(c)
            /\ query.env # None
            /\ query.arch = None
            /\ \E k \in DOMAIN c.inst :
                   /\ DescParses(c.inst[k])
                   /\ PartialToolchainDesc_from_str(c.inst[k]).target.env = None
                   /\ ~Contains(c.candidates, c.inst[k])
            /\ \E k \in DOMAIN c.inst :
                   /\ DescParses(c.inst[k])
                   /\ PartialToolchainDesc_from_str(c.inst[k]).target.arch # None
                   /\ Contains(c.candidates, c.inst[k])

\* C4: with zero, one or several candidates the update check fails with
\* ToolchainNotInstalled of the name it was given.
C4_FailsWithInputName ==
    \A i \in DOMAIN UpdateChecks :
        LET c == UpdateChecks[i]
        IN  CandidatesListed(c) => c.result = Err("ToolchainNotInstalled", c.name)

\* Several candidates were listed, none of them the name given.
C4_Witness ==
    \E i \in DOMAIN UpdateChecks :
        LET c == UpdateChecks[i]
        IN  /\ CandidatesListed(c)
            /\ Len(c.candidates) >= 2
            /\ ~Contains(c.candidates, c.name)
            /\ last.result = Err("ToolchainNotInstalled", c.name)

\* C5 as claimed: with no candidate the update check fails with the error
\* kind NoCandidateToolchains.
C5_Claimed ==
    \A i \in DOMAIN UpdateChecks :
        LET c == UpdateChecks[i]
        IN  (CandidatesListed(c) /\ c.candidates = <<>>) =>
                c.result.kind = "NoCandidateToolchains"

\* C5: with no candidate the update check prints the error line "no candidate
\* toolchains found" and no suggestion, and fails with ToolchainNotInstalled
\* of the name it was given.
C5_NoCandidateIsReported ==
    \A i \in DOMAIN UpdateChecks :
        LET c == UpdateChecks[i]
        IN  (CandidatesListed(c) /\ c.candidates = <<>>) =>
            /\ c.out = <<TripleWarning, Msg("err", "no candidate toolchains found", <<>>)>>
            /\ c.result = Err("ToolchainNotInstalled", c.name)
            /\ last.result = c.result

\* Toolchains were installed and none matched the query.
C5_Witness ==
    \E i \in DOMAIN UpdateChecks :
        LET c == UpdateChecks[i]
        IN  /\ CandidatesListed(c)
            /\ c.candidates = <<>>
            /\ \E k \in DOMAIN c.inst : DescParses(c.inst[k])

CheckPorts == {"update_bare_triple_check", "default_bare_triple_check"}

ActingPorts == {"get_toolchain", "install_from_dist", "install_from_dist_if_not_installed",
                "make_default"}

\* The last n elements of a sequence.
LastOf(seq, n) == SubSeq(seq, Len(seq) - n + 1, Len(seq))

\* C6: in update and default_ the check of a name comes before the lookup of
\* that name; a failing check ends the command with the check's error, with
\* nothing called after the check; from the check on the name is not looked up,
\* nothing is installed or made default (the default check's own non-creating
\* lookup of the merged name is the only lookup), and the toolchains directory
\* and the default stay as the check found them.
C6_CheckFirstAndFailEarly ==
    (last.cmd \in {"update", "default"}) =>
        /\ \A j \in DOMAIN last.calls :
               (last.calls[j].port = "get_toolchain" /\ Contains(last.names, last.calls[j].name)) =>
                   \E i \in 1..(j - 1) :
                       /\ last.calls[i].port \in CheckPorts
                       /\ last.calls[i].name = last.calls[j].name
        /\ (last.checks # <<>> /\ last.checks[Len(last.checks)].result # Ok) =>
               LET c == last.checks[Len(last.checks)]
                   own == <<Call(last.cmd \o "_bare_triple_check", c.name, FALSE)>> \o c.calls
               IN  /\ last.result = c.result
                   /\ Len(last.calls) >= Len(own)
                   /\ LastOf(last.calls, Len(own)) = own
                   /\ \A j \in DOMAIN own :
                          own[j].port \in ActingPorts =>
                              /\ own[j].port = "get_toolchain"
                              /\ own[j].flag = FALSE
                              /\ own[j].name # c.name
                   /\ default_toolchain = last.before.dflt
                   /\ installed = c.inst

\* An update went through a first name and failed at the check of the second,
\* which suggested a candidate.
C6_Witness ==
    /\ last.cmd = "update"
    /\ Len(last.checks) = 2
    /\ last.checks[2].result = Err("ToolchainNotInstalled", last.checks[2].name)
    /\ last.checks[2].candidates # <<>>
    /\ installed # last.before.installed

\* The default check reached the end of find_default.
DefaultFound(c) == TripleParses(c.name) /\ last.fault # "find_default"

\* C7 as claimed: the default check fails with ToolchainNotInstalled for every
\* name that parses as a triple, whatever the default; it returns Ok only for
\* a name that is no triple.  (Stated for the runs in which no call fails.)
C7_Claimed ==
    \A i \in DOMAIN DefaultChecks :
        LET c == DefaultChecks[i]
        IN  last.fault = "none" =>
            /\ TripleParses(c.name) => c.result = Err("ToolchainNotInstalled", c.name)
            /\ c.result = Ok => ~TripleParses(c.name)

\* C7: for a name that parses as a triple the default check fails with
\* ToolchainNotInstalled of that name when the default's name parses as a
\* descriptor and the lookup succeeds, and never returns Ok then; it returns Ok
\* when no default is configured or the default's name is no descriptor, and
\* for a name that is no triple.
C7_FailsOnlyWithDescriptor ==
    \A i \in DOMAIN DefaultChecks :
        LET c == DefaultChecks[i]
            default_name == default_name_of(c.dflt)
        IN  /\ ~TripleParses(c.name) => (c.result = Ok /\ c.out = <<>> /\ c.calls = <<>>)
            /\ (DefaultFound(c) /\ ~DescParses(default_name)) => c.result = Ok
            /\ (TripleParses(c.name) /\ DescParses(default_name)) => c.result # Ok
            /\ (DefaultFound(c) /\ DescParses(default_name) /\ last.fault # "get_toolchain")
                   => c.result = Err("ToolchainNotInstalled", c.name)

\* A triple was given while the default was a custom toolchain, and the check
\* returned Ok.
C7_Witness ==
    \E i \in DOMAIN DefaultChecks :
        LET c == DefaultChecks[i]
        IN  /\ TripleParses(c.name)
            /\ c.dflt # NoName
            /\ ~DescParses(default_name_of(c.dflt))
            /\ c.result = Ok

\* C8: with a default that parses as a descriptor, the name looked up is the
\* default's channel with the query triple as its whole triple, looked up
\* without creating; a resolved name equal to the default's gives the
\* "already default" warning and no suggestion, any other gives one suggestion
\* naming it; both fail with ToolchainNotInstalled.
C8_MergedLookupAndReport ==
    \A i \in DOMAIN DefaultChecks :
        LET c == DefaultChecks[i]
            default_name == default_name_of(c.dflt)
            looked == c.calls[Len(c.calls)]
            resolved == ResolvedName(looked.name)
            suggestions == SelectSeq(c.out, LAMBDA m : m.level = "out")
            warnings == SelectSeq(c.out, LAMBDA m : m.level = "warn" /\ m # TripleWarning)
        IN  (DefaultFound(c) /\ DescParses(default_name)) =>
            /\ Len(c.calls) = 2
            /\ looked.port = "get_toolchain"
            /\ looked.flag = FALSE
            /\ DescParses(looked.name)
            /\ PartialToolchainDesc_from_str(looked.name) =
                   [channel |-> PartialToolchainDesc_from_str(default_name).channel,
                    target  |-> PartialTargetTriple_from_str(c.name)]
            /\ last.fault # "get_toolchain" =>
                   /\ c.result = Err("ToolchainNotInstalled", c.name)
                   /\ resolved = default_name => (suggestions = <<>> /\ Len(warnings) = 1)
                   /\ resolved # default_name =>
                          /\ warnings = <<>>
                          /\ Len(suggestions) = 1
                          /\ suggestions[1].names = <<resolved>>

\* The query lacked a component the default holds, and the toolchain it
\* resolved to was suggested.
C8_Witness ==
    \E i \in DOMAIN DefaultChecks :
        LET c == DefaultChecks[i]
            default_name == default_name_of(c.dflt)
        IN  /\ DefaultFound(c)
            /\ DescParses(default_name)
            /\ PartialTargetTriple_from_str(c.name).env = None
            /\ PartialToolchainDesc_from_str(default_name).target.env # None
            /\ \E k \in DOMAIN c.out : c.out[k].level = "out"
            /\ c.result = Err("ToolchainNotInstalled", c.name)

\* C9: the default check never suggests the very name it was given.
C9_SuggestionIsNotTheInput ==
    \A i \in DOMAIN DefaultChecks :
        LET c == DefaultChecks[i]
        IN  \A k \in DOMAIN c.out :
                c.out[k].level = "out" => ~Contains(c.out[k].names, c.name)

\* The default check suggested a toolchain for a full triple.
C9_Witness ==
    \E i \in DOMAIN DefaultChecks :
        LET c == DefaultChecks[i]
        IN  /\ TripleParses(c.name)
            /\ PartialTargetTriple_from_str(c.name).arch # None
            /\ PartialTargetTriple_from_str(c.name).os # None
            /\ \E k \in DOMAIN c.out : c.out[k].level = "out" /\ c.out[k].names # <<>>

\* The last command was a successful `override unset --nonexistent`.
PrunedNonexistent ==
    /\ last.cmd = "override unset"
    /\ last.flags[1]
    /\ last.result = Ok

\* C10: after one run of override_remove in nonexistent mode, no override
\* entry is left whose path is no existing directory, so a second run on the
\* same directories selects nothing and removes nothing.
C10_PruningIsIdempotent ==
    PrunedNonexistent =>
        LET again == override_remove(installed, overrides, dirs, TRUE, last.names,
                                     last.cwd, "none")
        IN  /\ \A i \in DOMAIN overrides : is_dir(dirs, overrides[i].path)
            /\ again.selected = <<>>
            /\ again.calls = <<>>
            /\ again.overrides = overrides
            /\ again.result = Ok

\* The first run removed the entries of two directories that were gone.
C10_Witness ==
    /\ PrunedNonexistent
    /\ Len(last.selected) >= 2
    /\ Len(overrides) < Len(last.before.overrides)

(* --------------------------- override unset --------------------------- *)

\* The last command was `override unset`.
Unset == last.cmd = "override unset"

\* The paths of the entries of a store, in its order.
PathsOf(ovr) == [i \in DOMAIN ovr |-> ovr[i].path]

Range(seq) == {seq[i] : i \in DOMAIN seq}

\* The last command printed the info line about the names.
Said(text, names) == \E k \in DOMAIN last.out : last.out[k] = Msg("info", text, names)

HintText == "you may use --path option to remove override toolchain for a specific path"

\* The paths the last `override unset` asked the store to remove, the store
\* answering.
Attempted ==
    IF Unset /\ last.fault # "settings.with_mut" THEN last.selected ELSE <<>>

\* C11: when override_remove asks the store to remove a path that has no
\* entry, it prints "no override toolchain" for the path and not "removed",
\* the command succeeds, and the store keeps every entry (but those of the
\* other selected paths).
C11_AbsentEntryIsNoError ==
    \A k \in DOMAIN Attempted :
        LET path == Attempted[k]
            others == {Attempted[j] : j \in DOMAIN Attempted \ {k}}
        IN  ~HasOverride(last.before.overrides, path) =>
                /\ Said("no override toolchain", <<path>>)
                /\ ~Said("override toolchain removed", <<path>>)
                /\ last.result = Ok
                /\ overrides = SelectSeq(last.before.overrides,
                                         LAMBDA e : e.path \notin others)

\* `override unset --path p` ran for a path without an entry while the store
\* held entries of other paths.
C11_Witness ==
    /\ Attempted # <<>>
    /\ last.names # <<>>
    /\ ~HasOverride(last.before.overrides, Attempted[1])
    /\ last.before.overrides # <<>>
    /\ last.result = Ok

\* C12: with --nonexistent the selection is the paths of the store's entries,
\* in the store's order, that are no existing directory when the command
\* runs: no entry of an existing directory is selected and every entry of a
\* missing one is.
C12_SelectionIsTheMissingDirs ==
    (Unset /\ last.flags[1] /\ last.fault # "settings.with") =>
        last.selected = PathsOf(SelectSeq(last.before.overrides,
                                          LAMBDA e : e.path \notin dirs))

\* The store held /tmp/a, which exists, before /deleted/b, which does not, and
\* only /deleted/b was selected.
C12_Witness ==
    /\ Unset
    /\ last.flags[1]
    /\ PathsOf(last.before.overrides) = << <<"/tmp/a">>, <<"/deleted/b">> >>
    /\ <<"/tmp/a">> \in dirs
    /\ <<"/deleted/b">> \notin dirs
    /\ last.selected = << <<"/deleted/b">> >>

\* C13: override_remove prints the --path hint exactly when the store was
\* asked to remove a path, had no entry for it, and the command was given
\* neither --path nor --nonexistent; and it prints it once.
C13_HintOnlyForBareAbsent ==
    Unset =>
        /\ Said(HintText, <<>>) <=>
               /\ ~last.flags[1]
               /\ last.names = <<>>
               /\ Attempted # <<>>
               /\ ~HasOverride(last.before.overrides, Attempted[1])
        /\ Cardinality({k \in DOMAIN last.out : last.out[k].text = HintText}) <= 1

\* `override unset` without options ran in a directory that has no override,
\* and the hint was printed after the "no override toolchain" line.
C13_Witness ==
    /\ Unset
    /\ last.names = <<>>
    /\ ~last.flags[1]
    /\ last.out = <<Msg("info", "no override toolchain", <<last.cwd>>),
                    Msg("info", HintText, <<>>)>>

\* C14: with --nonexistent and no entry of a missing directory, override_remove
\* prints "no nonexistent paths detected" and nothing else, asks the store for
\* no removal, leaves the store as it was and succeeds.
C14_NothingToPrune ==
    (/\ Unset
     /\ last.flags[1]
     /\ last.fault # "settings.with"
     /\ \A i \in DOMAIN last.before.overrides : last.before.overrides[i].path \in dirs) =>
        /\ last.out = <<Msg("info", "no nonexistent paths detected", <<>>)>>
        /\ last.calls = <<>>
        /\ overrides = last.before.overrides
        /\ last.result = Ok

\* --nonexistent ran on a store that holds entries, all of existing
\* directories.
C14_Witness ==
    /\ Unset
    /\ last.flags[1]
    /\ last.before.overrides # <<>>
    /\ \A i \in DOMAIN last.before.overrides : last.before.overrides[i].path \in dirs
    /\ Said("no nonexistent paths detected", <<>>)

\* seq is the first entries of full.
IsPrefix(seq, full) == Len(seq) <= Len(full) /\ \A i \in DOMAIN seq : seq[i] = full[i]

\* C17: override_remove calls remove_override once per selected path, in the
\* selection's order, up to the first call that fails; without --nonexistent
\* the selection is the one path of --path or else the current directory;
\* afterwards the store holds the entries it held, in their order, but those of
\* the selected paths, and the toolchains and the default are untouched.
C17_UnsetFrame ==
    Unset =>
        LET removals == [i \in DOMAIN last.selected |->
                             Call("remove_override", last.selected[i], FALSE)]
        IN  /\ (~last.flags[1] /\ last.result # PortError("current_dir")) =>
                   last.selected = IF last.names # <<>> THEN <<last.names[1]>>
                                   ELSE <<last.cwd>>
            /\ IsPrefix(last.calls, removals)
            /\ last.result = Ok => last.calls = removals
            /\ last.result = Ok =>
                   overrides = SelectSeq(last.before.overrides,
                                         LAMBDA e : e.path \notin Range(last.selected))
            /\ last.result # Ok => overrides = last.before.overrides
            /\ installed = last.before.installed
            /\ default_toolchain = last.before.dflt

\* `override unset --path p` ran in another directory than p and removed p's
\* entry, leaving another entry in the store.
C17_Witness ==
    /\ Unset
    /\ ~last.flags[1]
    /\ last.names # <<>>
    /\ last.names[1] # last.cwd
    /\ last.result = Ok
    /\ last.calls = <<Call("remove_override", last.names[1], FALSE)>>
    /\ overrides # <<>>
    /\ Len(overrides) < Len(last.before.overrides)

(* --------------------------- show / show active-toolchain ------------- *)

\* The last command was one of the two that report the active toolchain, and
\* it got as far as the lookup.
Looked ==
    /\ last.cmd \in {"show", "show active-toolchain"}
    /\ last.result \notin {PortError("current_dir"), PortError("list_toolchains")}

\* What the lookup gave the last command.
LastFound ==
    find_override_toolchain_or_default(installed, default_toolchain, overrides,
                                       last.cwd, last.fault)

\* The lines of the last command that name the active toolchain.
ActiveLines ==
    SelectSeq(last.out, LAMBDA m : m.text \in {"active toolchain (default)",
                                               "active toolchain (directory override)"})

\* The calls of the lookup in the last command.
Lookups == SelectSeq(last.calls, LAMBDA c : c.port = "find_override_toolchain_or_default")

\* show got through its sections to the one on the active toolchain.
ShowReported == last.cmd = "show" /\ last.result # PortError("get_default")

\* C15: a toolchain the lookup gives with a reason is printed with the reason
\* and never as "(default)"; one it gives without a reason is printed as
\* "(default)" and never with a reason; when the lookup gives nothing,
\* show_active_toolchain prints nothing and succeeds, and show prints "no
\* active toolchain".  The reason is there exactly when an override entry
\* applies to the directory.
C15_ReasonModel ==
    (Looked /\ LastFound.result = Ok /\ (last.cmd = "show" => ShowReported)) =>
        LET found == LastFound
            overridden == \E i \in DOMAIN overrides : overrides[i].path = last.cwd
        IN  /\ last.result = Ok
            /\ (found.toolchain # NoName /\ found.reason # None) =>
                   /\ overridden
                   /\ ActiveLines = <<Msg("out", "active toolchain (directory override)",
                                          <<found.toolchain, found.reason[2]>>)>>
            /\ (found.toolchain # NoName /\ found.reason = None) =>
                   /\ ~overridden
                   /\ found.toolchain = default_toolchain
                   /\ ActiveLines = <<Msg("out", "active toolchain (default)",
                                          <<found.toolchain>>)>>
            /\ found.toolchain = NoName =>
                   /\ ~overridden
                   /\ default_toolchain = NoName
                   /\ ActiveLines = <<>>
                   /\ last.cmd = "show active-toolchain" => last.out = <<>>
                   /\ last.cmd = "show" =>
                          last.out[Len(last.out)] = Msg("out", "no active toolchain", <<>>)

\* show active-toolchain ran in a directory whose override names another
\* toolchain than the default, and printed the override's with its reason.
C15_Witness ==
    /\ last.cmd = "show active-toolchain"
    /\ default_toolchain # NoName
    /\ Contains(installed, default_toolchain)
    /\ LastFound.toolchain # default_toolchain
    /\ last.out = <<Msg("out", "active toolchain (directory override)",
                        <<LastFound.toolchain, last.cwd>>)>>

\* C16 as claimed: after a lookup that failed neither show_active_toolchain nor
\* show returns success, and each command calls the lookup once.
C16_Claimed ==
    Looked =>
        /\ LastFound.result # Ok => last.result # Ok
        /\ Len(Lookups) = 1

\* C16: show_active_toolchain returns the error of a lookup that failed and
\* prints nothing; show prints the error as the line of its active-toolchain
\* section, names no active toolchain, and returns success; each command calls
\* the lookup once.
C16_LookupErrorIsReturnedOrShown ==
    Looked =>
        /\ Len(Lookups) = 1
        /\ (LastFound.result # Ok /\ last.cmd = "show active-toolchain") =>
               /\ last.result = LastFound.result
               /\ last.out = <<>>
        /\ (LastFound.result # Ok /\ ShowReported) =>
               /\ last.result = Ok
               /\ last.out[Len(last.out)] = Msg("out", "(error)", <<>>)
               /\ ActiveLines = <<>>
               /\ \A k \in DOMAIN last.out : last.out[k].text # "no active toolchain"

\* The override of the directory names a toolchain that was uninstalled, no
\* other fault is at work, and show ended its output with the error's line.
C16_Witness ==
    /\ last.cmd = "show"
    /\ last.fault = "none"
    /\ \E i \in DOMAIN overrides :
           overrides[i].path = last.cwd /\ ~Contains(installed, overrides[i].toolchain)
    /\ LastFound.result = PortError("find_override_toolchain_or_default")
    /\ last.out[Len(last.out)] = Msg("out", "(error)", <<>>)
    /\ last.result = Ok

(* --------------------------- update, default: order and frame --------- *)

\* The names the last command passed to the port, call after call.
NamesCalled(port) ==
    LET made == SelectSeq(last.calls, LAMBDA c : c.port = port)
    IN  [i \in DOMAIN made |-> made[i].name]

\* C19: update checks and looks up its names in argument order and stops at the
\* first failure.  When it comes to a name that parses as a triple, the names
\* before it have been looked up and, where they are channel names, installed,
\* and stay installed; that name and the names after it are neither looked up
\* nor installed, self_update is not called, and the command fails.
C19_StopsAtFirstTriple ==
    (last.cmd = "update" /\ last.names # <<>>) =>
        LET names == last.names
            checked == NamesCalled("update_bare_triple_check")
            lookups == NamesCalled("get_toolchain")
            installs == NamesCalled("install_from_dist")
            triples == {k \in DOMAIN names : TripleParses(names[k])}
        IN  /\ IsPrefix(checked, names)
            /\ IsPrefix(lookups, names)
            /\ Len(checked) - 1 <= Len(lookups)
            /\ \A k \in triples :
                   /\ Len(checked) <= k
                   /\ Len(lookups) < k
                   /\ Len(installs) < k
                   /\ NamesCalled("self_update") = <<>>
                   /\ last.result # Ok
                   /\ Len(checked) = k =>
                          /\ lookups = SubSeq(names, 1, k - 1)
                          /\ \A j \in 1..(k - 1) :
                                 /\ Contains(installed, ResolvedName(names[j]))
                                 /\ ~is_custom(ResolvedName(names[j])) =>
                                        Contains(installs, ResolvedName(names[j]))
                          /\ \A i \in DOMAIN last.before.installed :
                                 Contains(installed, last.before.installed[i])

\* `update stable gnu` with self-update on: stable was not installed before and
\* is afterwards, gnu was checked and not looked up, and the command failed.
C19_Witness ==
    /\ last.cmd = "update"
    /\ last.flags = <<FALSE>>
    /\ Len(last.names) = 2
    /\ ~TripleParses(last.names[1])
    /\ TripleParses(last.names[2])
    /\ NamesCalled("update_bare_triple_check") = last.names
    /\ NamesCalled("get_toolchain") = <<last.names[1]>>
    /\ ~Contains(last.before.installed, ResolvedName(last.names[1]))
    /\ Contains(installed, ResolvedName(last.names[1]))
    /\ last.result = Err("ToolchainNotInstalled", last.names[2])

StaleAtSelection ==
    PathsOf(SelectSeq(last.before.overrides, LAMBDA e : e.path \notin last.before.dirs))

\* C18: with --nonexistent, override_remove looks at the directory of every
\* entry once, before its first removal, and at none afterwards; whatever
\* becomes of the directories in the meantime, it asks the store to remove
\* the paths that were missing at the selection, and when it ends in success
\* the entries gone from the store are those paths' and no others'.
C18_RemovesWhatWasStaleAtSelection ==
    (Unset /\ last.flags[1] /\ last.fault # "settings.with") =>
        LET looked == [i \in DOMAIN last.before.overrides |->
                           Call("is_dir", last.before.overrides[i].path, FALSE)]
            removals == [i \in DOMAIN last.selected |->
                             Call("remove_override", last.selected[i], FALSE)]
            done == Len(last.selected) - Len(last.pending)
        IN  /\ last.selected = StaleAtSelection
            /\ IsPrefix(looked, last.calls)
            /\ IsPrefix(last.calls, looked \o removals)
            /\ last.result = Ok =>
                   /\ last.calls = looked \o SubSeq(removals, 1, done)
                   /\ overrides = SelectSeq(last.before.overrides,
                          LAMBDA e : e.path \notin Range(SubSeq(last.selected, 1, done)))
            /\ (last.result = Ok /\ last.pending = <<>>) =>
                   Range(PathsOf(last.before.overrides)) \ Range(PathsOf(overrides))
                       = Range(StaleAtSelection)

\* The run ended in success; a directory that was missing at the selection
\* exists by now and its override is gone, and a directory that existed at the
\* selection is missing by now and its override is kept.
C18_Witness ==
    /\ Unset
    /\ last.flags[1]
    /\ last.result = Ok
    /\ last.pending = <<>>
    /\ \E p \in Range(last.selected) : p \in dirs /\ ~HasOverride(overrides, p)
    /\ \E q \in Range(PathsOf(overrides)) : q \in last.before.dirs /\ q \notin dirs

====
